---- MODULE Spec2Model ----
(***************************************************************************)
(* Model of build_shaders.py: the shader discovery and compilation driver. *)
(*                                                                         *)
(* Strings are sequences of one-character strings, so that endswith,       *)
(* os.path.join and the f-string of the output name are computed on the    *)
(* characters as the script computes them.                                 *)
(*                                                                         *)
(* The environment of one run is the file system (which of the script's    *)
(* directories exist, the files in them) and whether the glslc binary can  *)
(* be launched.  During a run only the script and the compiler it starts   *)
(* change the environment.                                                 *)
(***************************************************************************)
EXTENDS Integers, Sequences, FiniteSets, TLC

VARIABLES
    pc,            \* position of the script: start, list, loop, wait, done, aborted
    fs,            \* file system: [dirs: set of paths, files: set of paths]
    fs_at_start,   \* the file system the run was started on
    glslc_present, \* whether launching "glslc" finds an executable
    listing,       \* what os.listdir(shader_dir) returned
    idx,           \* index in listing of the entry the for loop is at
    children,      \* the child processes the script tried to start, in order
    console        \* the lines printed on standard output, in order

vars == <<pc, fs, fs_at_start, glslc_present, listing, idx, children, console>>

----------------------------------------------------------------------------
\* Bounds of the model.

\* Largest number of files in the source directory at the start of a run.
MaxFiles == 3

\* Exit codes a compiler process can end with.
ExitCodes == {0, 1, 2}

\* File names the source directory's files are drawn from.
NamePool ==
    { <<"a", ".", "r", "c", "h", "i", "t">>,
      <<"a", ".", "r", "m", "i", "s", "s">>,
      <<"b", ".", "r", "g", "e", "n">>,
      <<".", "r", "i", "n", "t">>,
      <<"n", ".", "t", "x", "t">>,
      <<"a", ".", "r", "c", "h", "i", "t", ".", "s", "p", "v">> }

----------------------------------------------------------------------------
\* Strings and paths.

EndsWith(s, suffix) ==
    /\ Len(s) >= Len(suffix)
    /\ SubSeq(s, Len(s) - Len(suffix) + 1, Len(s)) = suffix

\* os.path.join(a, b) on POSIX paths.
Join(a, b) ==
    IF b # <<>> /\ b[1] = "/" THEN b
    ELSE IF a = <<>> \/ a[Len(a)] = "/" THEN a \o b
    ELSE a \o <<"/">> \o b

LastSlash(p) ==
    LET S == {i \in 1..Len(p) : p[i] = "/"}
    IN  IF S = {} THEN 0 ELSE CHOOSE i \in S : \A j \in S : j <= i

\* os.path.split(p): the head and the tail of a path.
Dirname(p) == IF LastSlash(p) = 0 THEN <<>> ELSE SubSeq(p, 1, LastSlash(p) - 1)
Basename(p) == SubSeq(p, LastSlash(p) + 1, Len(p))

----------------------------------------------------------------------------
\* The script's constants.

shader_dir ==
    <<"r", "e", "s", "o", "u", "r", "c", "e", "s", "/",
      "s", "h", "a", "d", "e", "r", "s">>

output_dir == Join(shader_dir, <<"s", "p", "v">>)

shader_extensions ==
    { <<".", "r", "c", "h", "i", "t">>,
      <<".", "r", "m", "i", "s", "s">>,
      <<".", "r", "g", "e", "n">>,
      <<".", "r", "i", "n", "t">> }

----------------------------------------------------------------------------
\* The file system.

Exists(f, p) == p \in f.dirs \/ p \in f.files

\* os.listdir(dir): the names directly under dir, files and directories.
listdir(f, dir) ==
    {Basename(p) : p \in {q \in f.dirs \cup f.files : Dirname(q) = dir}}

\* os.mkdir(name): one level, fails when name exists or its parent does not.
mkdir(f, name) ==
    IF Exists(f, name) THEN [fs |-> f, err |-> "FileExistsError"]
    ELSE IF Dirname(name) # <<>> /\ Dirname(name) \notin f.dirs
         THEN [fs |-> f, err |-> "FileNotFoundError"]
    ELSE [fs |-> [f EXCEPT !.dirs = @ \cup {name}], err |-> "none"]

\* A mutation of makedirs: exist_ok is ignored, an existing leaf is an error.
RECURSIVE makedirs_strict(_, _, _)
makedirs_strict(f, name, exist_ok) ==
    LET head == Dirname(name)
        up == IF head # <<>> /\ ~Exists(f, head)
              THEN makedirs_strict(f, head, exist_ok)
              ELSE [fs |-> f, err |-> "none"]
    IN  IF up.err # "none" THEN up ELSE mkdir(up.fs, name)

\* A mutation of makedirs: a single mkdir, the parents are not created.
mkdir_only(f, name, exist_ok) ==
    LET made == mkdir(f, name)
    IN  IF made.err = "FileExistsError" /\ exist_ok /\ name \in f.dirs
        THEN [fs |-> f, err |-> "none"]
        ELSE made

\* os.makedirs(name, exist_ok): creates the missing parents, then the leaf;
\* an existing leaf is an error unless exist_ok and the leaf is a directory.
RECURSIVE makedirs(_, _, _)
makedirs(f, name, exist_ok) ==
    LET head == Dirname(name)
        up == IF head # <<>> /\ ~Exists(f, head)
              THEN makedirs(f, head, exist_ok)
              ELSE [fs |-> f, err |-> "none"]
        made == mkdir(up.fs, name)
    IN  IF up.err \notin {"none", "FileExistsError"} THEN up
        ELSE IF made.err = "none" THEN made
        ELSE IF exist_ok /\ name \in up.fs.dirs THEN [fs |-> up.fs, err |-> "none"]
        ELSE made

----------------------------------------------------------------------------
\* The loop body's pure parts.

\* A mutation of matches: the filter is dropped.
matches_all(filename) == TRUE

\* any(filename.endswith(ext) for ext in shader_extensions)
matches(filename) == \E ext \in shader_extensions : EndsWith(filename, ext)

ShaderPath(filename) == Join(shader_dir, filename)

\* A mutation of OutputPath: the extension is replaced instead of appended to.
OutputPath_stem(filename) ==
    LET dots == {i \in 1..Len(filename) : filename[i] = "."}
        last == IF dots = {} THEN Len(filename) + 1
                ELSE CHOOSE i \in dots : \A j \in dots : j <= i
    IN  Join(output_dir, SubSeq(filename, 1, last - 1) \o <<".", "s", "p", "v">>)

\* os.path.join(output_dir, f"{filename}.spv")
OutputPath(filename) == Join(output_dir, filename \o <<".", "s", "p", "v">>)

\* A mutation of RunOutcome: check=True is dropped, no exit code raises.
RunOutcome_unchecked(code) == "returned"

\* subprocess.run(..., check=True) once the child has exited.
RunOutcome(code) == IF code = 0 THEN "returned" ELSE "CalledProcessError"

\* A mutation of AfterCompileError: the handler lets the error end the run.
AfterCompileError_raise == "aborted"

\* Where the script goes after the except clause has printed the error.
AfterCompileError == "loop"

----------------------------------------------------------------------------
\* Initial states: the environment a run can be started on.

shader_parent == Dirname(shader_dir)

DirShapes ==
    { {}, {shader_parent}, {shader_parent, shader_dir},
      {shader_parent, shader_dir, output_dir} }

\* Artifacts a previous run may have left in the output directory.
OldArtifacts == { Join(output_dir, <<"a", ".", "r", "c", "h", "i", "t", ".", "s", "p", "v">>) }

InitialFileSystems ==
    { [dirs |-> d, files |-> {Join(shader_dir, n) : n \in names} \cup old] :
        <<d, names, old>> \in
            { t \in DirShapes \X (SUBSET NamePool) \X (SUBSET OldArtifacts) :
                /\ Cardinality(t[2]) <= MaxFiles
                /\ (shader_dir \notin t[1] => t[2] = {})
                /\ (output_dir \notin t[1] => t[3] = {}) } }

Init ==
    /\ pc = "start"
    /\ fs \in InitialFileSystems
    /\ fs_at_start = fs
    /\ glslc_present \in BOOLEAN
    /\ listing = <<>>
    /\ idx = 1
    /\ children = <<>>
    /\ console = <<>>

----------------------------------------------------------------------------
\* The script, one action per step.

\* os.makedirs(output_dir, exist_ok=True); an error ends the script.
MakeDirs ==
    /\ pc = "start"
    /\ LET made == makedirs(fs, output_dir, TRUE)
       IN  IF made.err = "none"
           THEN fs' = made.fs /\ pc' = "list"
           ELSE fs' = fs /\ pc' = "aborted"
    /\ UNCHANGED <<fs_at_start, glslc_present, listing, idx, children, console>>

\* os.listdir(shader_dir): the entries in an arbitrary order.
ListDir ==
    /\ pc = "list"
    /\ LET names == listdir(fs, shader_dir)
           n == Cardinality(names)
       IN  \E order \in [1..n -> names] :
              /\ \A i, j \in 1..n : i # j => order[i] # order[j]
              /\ listing' = order
    /\ idx' = 1
    /\ pc' = "loop"
    /\ UNCHANGED <<fs, fs_at_start, glslc_present, children, console>>

\* The if of the loop is false: the entry is passed over.
SkipEntry ==
    /\ pc = "loop"
    /\ idx <= Len(listing)
    /\ ~matches(listing[idx])
    /\ idx' = idx + 1
    /\ UNCHANGED <<pc, fs, fs_at_start, glslc_present, listing, children, console>>

Job(i) ==
    [pos |-> i, filename |-> listing[i],
     src |-> ShaderPath(listing[i]), out |-> OutputPath(listing[i])]

\* A mutation of LaunchCompiler: the child is started and not waited for.
LaunchCompiler_nowait ==
    /\ pc = "loop"
    /\ idx <= Len(listing)
    /\ matches(listing[idx])
    /\ glslc_present
    /\ children' = Append(children, [job |-> Job(idx), state |-> "running"])
    /\ idx' = idx + 1
    /\ UNCHANGED <<pc, fs, fs_at_start, glslc_present, listing, console>>

\* subprocess.run starts glslc and blocks until the child exits.
LaunchCompiler ==
    /\ pc = "loop"
    /\ idx <= Len(listing)
    /\ matches(listing[idx])
    /\ glslc_present
    /\ children' = Append(children, [job |-> Job(idx), state |-> "running"])
    /\ pc' = "wait"
    /\ UNCHANGED <<fs, fs_at_start, glslc_present, listing, idx, console>>

\* subprocess.run cannot start glslc: FileNotFoundError, which the except
\* clause (CalledProcessError only) does not catch; the script ends on it.
LaunchFails ==
    /\ pc = "loop"
    /\ idx <= Len(listing)
    /\ matches(listing[idx])
    /\ ~glslc_present
    /\ children' = Append(children, [job |-> Job(idx), state |-> "launch_failed"])
    /\ pc' = "aborted"
    /\ UNCHANGED <<fs, fs_at_start, glslc_present, listing, idx, console>>

\* The child exits; run returns or raises, and the script prints its line.
ChildExits ==
    /\ pc = "wait"
    /\ \E code \in ExitCodes :
         LET k == Len(children)
             job == children[k].job
         IN  /\ children' = [children EXCEPT ![k] =
                                [job |-> job, state |-> "exited", code |-> code]]
             /\ fs' = IF code = 0 THEN [fs EXCEPT !.files = @ \cup {job.out}] ELSE fs
             /\ IF RunOutcome(code) = "returned"
                THEN /\ console' = Append(console,
                            [kind |-> "Compiled", src |-> job.src, out |-> job.out])
                     /\ pc' = "loop"
                ELSE /\ console' = Append(console,
                            [kind |-> "Error", src |-> job.src, detail |-> code])
                     /\ pc' = AfterCompileError
    /\ idx' = idx + 1
    /\ UNCHANGED <<fs_at_start, glslc_present, listing>>

\* The listing is exhausted: the script ends.
Finish ==
    /\ pc = "loop"
    /\ idx > Len(listing)
    /\ pc' = "done"
    /\ UNCHANGED <<fs, fs_at_start, glslc_present, listing, idx, children, console>>

Next ==
    \/ MakeDirs
    \/ ListDir
    \/ SkipEntry
    \/ LaunchCompiler
    \/ LaunchFails
    \/ ChildExits
    \/ Finish

Spec == Init /\ [][Next]_vars

----------------------------------------------------------------------------
\* Vocabulary of the properties, stated on the characters of the names and
\* not through the script's own filter and path construction.

Terminated == pc \in {"done", "aborted"}

SpvName == <<"s", "p", "v">>

HasRecognizedSuffix(name) ==
    \/ EndsWith(name, <<".", "r", "c", "h", "i", "t">>)
    \/ EndsWith(name, <<".", "r", "m", "i", "s", "s">>)
    \/ EndsWith(name, <<".", "r", "g", "e", "n">>)
    \/ EndsWith(name, <<".", "r", "i", "n", "t">>)

ExpectedOutput(name) == output_dir \o <<"/">> \o name \o <<".", "s", "p", "v">>

ExpectedSource(name) == shader_dir \o <<"/">> \o name

\* The compiler invocations attempted for the entry at position i of the listing.
Attempts(i) == {k \in 1..Len(children) : children[k].job.pos = i}

Exited(k) == children[k].state = "exited"

MessagesFor(path) == {m \in 1..Len(console) : console[m].src = path}

\* C1: once the run is over, every entry of the listing whose name ends with
\* a recognized suffix has had exactly one compiler invocation attempted, with
\* output path = output directory / (file name + ".spv").
C1_ExactlyOneInvocation ==
    Terminated =>
        \A i \in 1..Len(listing) :
            HasRecognizedSuffix(listing[i]) =>
                /\ Cardinality(Attempts(i)) = 1
                /\ \A k \in Attempts(i) :
                       children[k].job.out = ExpectedOutput(listing[i])

\* C2: when the compiler binary is absent, the run still goes over the whole
\* listing and ends normally, with a failure message printed for every
\* matching entry.
C2_AbsentCompilerContinues ==
    (Terminated /\ ~glslc_present) =>
        /\ pc = "done"
        /\ \A i \in 1..Len(listing) :
               HasRecognizedSuffix(listing[i]) =>
                   \E m \in MessagesFor(ExpectedSource(listing[i])) :
                       console[m].kind = "Error"

\* C3: once the run is over, every matching entry listed after an entry whose
\* compile exited with a non-zero code has been passed to the compiler.
C3_FailureDoesNotStopLaterCompiles ==
    Terminated =>
        \A k \in 1..Len(children) :
            (Exited(k) /\ children[k].code # 0) =>
                \A j \in (children[k].job.pos + 1)..Len(listing) :
                    HasRecognizedSuffix(listing[j]) => Attempts(j) # {}

C3_Witness ==
    /\ pc = "done"
    /\ \E k, l \in 1..Len(children) :
          /\ k < l
          /\ Exited(k) /\ children[k].code # 0
          /\ Exited(l)

\* C4: no compiler invocation is ever attempted for a name that does not end
\* with a recognized suffix; in particular never for the entry "spv".
C4_OnlyRecognizedNamesCompiled ==
    \A k \in 1..Len(children) :
        /\ HasRecognizedSuffix(children[k].job.filename)
        /\ children[k].job.filename # SpvName
        /\ children[k].job.filename = listing[children[k].job.pos]

C4_Witness ==
    /\ pc = "done"
    /\ \E i, j \in 1..Len(listing) :
          /\ listing[i] = SpvName
          /\ ~HasRecognizedSuffix(listing[j]) /\ listing[j] # SpvName
    /\ \E k \in 1..Len(children) : Exited(k) /\ children[k].code # 0

\* C5: every compiler process that was launched and has exited has exactly
\* one console message, the success message (naming source and output path)
\* if and only if its exit code is zero and the failure message (naming the
\* source path) otherwise; there are no other messages.
C5_OneMessagePerCompile ==
    /\ \A k \in 1..Len(children) :
          Exited(k) =>
             /\ Cardinality(MessagesFor(children[k].job.src)) = 1
             /\ \A m \in MessagesFor(children[k].job.src) :
                   /\ console[m].kind = "Compiled" <=> children[k].code = 0
                   /\ console[m].kind = "Error" <=> children[k].code # 0
                   /\ console[m].kind = "Compiled" =>
                          console[m].out = children[k].job.out
                   /\ console[m].src = ExpectedSource(children[k].job.filename)
    /\ Len(console) = Cardinality({k \in 1..Len(children) : Exited(k)})

C5_Witness ==
    \E k, l \in 1..Len(children) :
        /\ Exited(k) /\ children[k].code = 0
        /\ Exited(l) /\ children[l].code # 0

\* C6: after the first step the output directory exists; ensuring it on a
\* file system where it exists raises no error and returns the same file
\* system; ensuring never removes or changes a file or a directory, and on a
\* run started with the directory present the file system is left as it was.
C6_EnsureOutputDirIdempotent ==
    /\ pc # "start" => output_dir \in fs.dirs
    /\ output_dir \in fs.dirs =>
          makedirs(fs, output_dir, TRUE) = [fs |-> fs, err |-> "none"]
    /\ pc = "start" =>
          LET once == makedirs(fs, output_dir, TRUE)
          IN  /\ once.err = "none"
              /\ makedirs(once.fs, output_dir, TRUE) = once
    /\ pc = "list" =>
          /\ fs.files = fs_at_start.files
          /\ fs_at_start.dirs \subseteq fs.dirs
          /\ output_dir \in fs_at_start.dirs => fs = fs_at_start

C6_Witness ==
    /\ pc = "list"
    /\ output_dir \in fs_at_start.dirs
    /\ OldArtifacts \subseteq fs.files

\* C7: at most one compiler process is in flight, and the script is blocked
\* while it is; every invocation but the latest has exited and has its
\* message on the console; invocations are in the order of the listing.
C7_StrictlySerial ==
    /\ Cardinality({k \in 1..Len(children) : children[k].state = "running"}) <= 1
    /\ \A k \in 1..Len(children) : children[k].state = "running" => pc = "wait"
    /\ \A k \in 1..(Len(children) - 1) :
          /\ Exited(k)
          /\ k <= Len(console)
          /\ console[k].src = children[k].job.src
    /\ \A k, l \in 1..Len(children) :
          k < l => children[k].job.pos < children[l].job.pos

C7_Witness ==
    /\ pc = "wait"
    /\ Len(children) >= 2
    /\ children[Len(children)].state = "running"

\* C8: the run ends only after every entry of the listing has been
\* considered, whatever the outcomes of the compiles.
C8_EndsOnlyAfterWholeListing ==
    Terminated => (pc = "done" /\ idx = Len(listing) + 1)

\* C9: the output directory exists whenever the listing is taken or a
\* compiler invocation is attempted, and a run started with the source
\* directory missing creates it with the output subdirectory and ends
\* normally with no compiler invocation.
C9_EnsureBeforeListAndCompile ==
    /\ pc # "start" => output_dir \in fs.dirs
    /\ children # <<>> => output_dir \in fs.dirs
    /\ (shader_dir \notin fs_at_start.dirs /\ pc # "start") =>
          /\ shader_dir \in fs.dirs
          /\ pc # "aborted"
          /\ children = <<>>
    /\ (shader_dir \notin fs_at_start.dirs /\ Terminated) =>
          /\ pc = "done"
          /\ listing = <<SpvName>>

C9_Witness ==
    /\ pc = "done"
    /\ shader_dir \notin fs_at_start.dirs

\* C10: the output path of an invocation is output directory / (name +
\* ".spv"), a function of the name alone, and distinct entries of a listing
\* get distinct output paths, so no two invocations of a run share one.
C10_OutputPathInjective ==
    /\ \A k \in 1..Len(children) :
          children[k].job.out = ExpectedOutput(children[k].job.filename)
    /\ \A k, l \in 1..Len(children) :
          k # l => children[k].job.out # children[l].job.out
    /\ \A i, j \in 1..Len(listing) :
          i # j => OutputPath(listing[i]) # OutputPath(listing[j])

C10_Witness ==
    /\ pc = "done"
    /\ \E k, l \in 1..Len(children) :
          /\ k # l
          /\ Exited(k) /\ children[k].code = 0
          /\ Exited(l) /\ children[l].code = 0
          /\ children[k].job.filename[1] = children[l].job.filename[1]

====
